---------------------------- MODULE Spec2Model ----------------------------
(***************************************************************************)
(* Request pipeline of emissionsapi/web.py: the two handlers get_data and  *)
(* get_average, each wrapped by parse_wkt_polygon (outermost), parse_date  *)
(* and emissionsapi.db.with_session (innermost).                           *)
(*                                                                         *)
(* Python's None and an absent keyword are both the empty tuple; a present *)
(* value x is <<x>>.  A WKT polygon is the sequence of its <<lon, lat>>    *)
(* vertices.                                                               *)
(***************************************************************************)
EXTENDS Integers, Sequences, FiniteSets, TLC

\* ------------------------------------------------------------------ bounds
\* largest number of rows the store returns for one query
MaxRows == 3
\* largest limit / offset a request carries
MaxLimit == 2

\* ------------------------------------------------------------ optional values
None == <<>>
Some(x) == <<x>>
IsNone(o) == Len(o) = 0

\* ------------------------------------------------------------------- inputs
\* a coordinate as it arrives: a number, or something that is not a number
Num(v) == [num |-> TRUE, v |-> v]
NotANumber == [num |-> FALSE, v |-> 0]
Coords == {10, 20}

GeoframeInputs ==
    {<<Num(a), Num(b), Num(c), Num(d)>> : a \in Coords, b \in Coords,
                                          c \in Coords, d \in Coords}
    \cup {<<Num(10), Num(10), Num(20)>>,
          <<Num(10), Num(10), Num(20), Num(20), Num(20)>>,
          <<Num(10), NotANumber, Num(20), Num(20)>>}

CountryInputs == {"DE", "FR", "ZZ"}

PolygonInputs ==
    {<<<<10, 10>>, <<20, 10>>, <<20, 20>>, <<10, 10>>>>,
     <<<<10, 10>>, <<20, 10>>, <<20, 20>>, <<10, 20>>>>,
     <<<<10, 10>>, <<10, 10>>>>}

DateInputs == {"2019-01-01", "2019-02-01", "not-a-date"}

PageInputs == {None} \cup {Some(n) : n \in 0..MaxLimit}

Optional(S) == {None} \cup {Some(x) : x \in S}

KwargsInputs ==
    [geoframe : Optional(GeoframeInputs), country : Optional(CountryInputs),
     polygon : Optional(PolygonInputs), begin : Optional(DateInputs),
     end : Optional(DateInputs), limit : PageInputs, offset : PageInputs,
     wkt_polygon : {None}]

Operations == {"get_data", "get_average"}

\* ---------------------------------------------------------------- responses
NoResponse == [status |-> 0, message |-> "", payload |-> <<>>]
ClientError(msg) == [status |-> 400, message |-> msg, payload |-> <<>>]
ServerError(exc) == [status |-> 500, message |-> exc, payload |-> <<>>]
Ok(payload) == [status |-> 200, message |-> "", payload |-> payload]

\* a wrapper's outcome: the response it returns itself (NoResponse when it
\* goes on to call f), the kwargs it passes to f, and the calls it made
Returned(resp, kw, calls) == [ret |-> resp, kwargs |-> kw, calls |-> calls]
CallF(kw, calls) == [ret |-> NoResponse, kwargs |-> kw, calls |-> calls]

\* ------------------------------------------------------------ collaborators
Value(v) == [exc |-> "", value |-> v]
Raise(e, msg) == [exc |-> e, value |-> msg]

\* emissionsapi.utils.bounding_box_to_wkt(*box): four numbers forming a
\* rectangle with min <= max on each axis become its closed 5-vertex
\* boundary; anything else is a ValueError
bounding_box_to_wkt(box) ==
    IF Len(box) # 4 \/ \E i \in 1..Len(box) : ~box[i].num
    THEN Raise("ValueError", "")
    ELSE LET lon1 == box[1].v
             lat1 == box[2].v
             lon2 == box[3].v
             lat2 == box[4].v
         IN  IF lon1 > lon2 \/ lat1 > lat2
             THEN Raise("ValueError", "")
             ELSE Value(<<<<lon1, lat1>>, <<lon1, lat2>>, <<lon2, lat2>>,
                          <<lon2, lat1>>, <<lon1, lat1>>>>)

\* emissionsapi.utils.polygon_to_wkt(polygon): a closed ring of enough
\* vertices is the boundary itself; anything else is a RESTParamError
\* carrying the validation message
polygon_to_wkt(polygon) ==
    IF Len(polygon) < 4
    THEN Raise("RESTParamError", "Polygon needs at least 4 points")
    ELSE IF polygon[1] # polygon[Len(polygon)]
    THEN Raise("RESTParamError", "Polygon is not closed")
    ELSE Value(polygon)

\* emissionsapi.country_bounding_boxes: code -> (name, bounding rectangle)
CountryTable ==
    [c \in {"DE", "FR"} |->
        IF c = "DE"
        THEN <<"Germany", <<Num(10), Num(10), Num(20), Num(20)>>>>
        ELSE <<"France", <<Num(10), Num(10), Num(10), Num(20)>>>>]

\* dateutil.parser.parse(text): the timestamp, or a ValueError
dateutil_parse(text) ==
    IF text = "2019-01-01" THEN Value(20190101)
    ELSE IF text = "2019-02-01" THEN Value(20190201)
    ELSE Raise("ValueError", "")

\* the rows the store holds: what get_points and get_averages iterate over
PointRow(i) == <<[value |-> 100 + i, timestamp |-> 20190100 + i], i, 50 + i>>
AverageRow(i) == <<7 * i, 20190200 + i, 20190100 + i, 40 + i>>
StoreRows(op, n) ==
    [i \in 1..n |-> IF op = "get_data" THEN PointRow(i) ELSE AverageRow(i)]

\* emissionsapi.db.limit_offset_query(query, limit, offset)
limit_offset_query(rows, limit, offset) ==
    LET from == IF IsNone(offset) THEN 0 ELSE offset[1]
        rest == SubSeq(rows, from + 1, Len(rows))
    IN  IF IsNone(limit) \/ limit[1] >= Len(rest)
        THEN rest
        ELSE SubSeq(rest, 1, limit[1])


\* ------------------------------------------------------------------- state
VARIABLES
    pc,                      \* the function about to run; "idle", "done"
    op,                      \* the operation the host invoked
    req,                     \* the keyword arguments the host passed
    kwargs,                  \* the keyword arguments as passed down the chain
    calls,                   \* the calls made for this request, in order
    session,                 \* "none", "open", "closed"
    query,                   \* the arguments the store was queried with
    rows,                    \* the rows the store query yields unpaginated
    response,                \* what the host gets back
    country_bounding_boxes   \* the country table

vars == <<pc, op, req, kwargs, calls, session, query, rows, response,
          country_bounding_boxes>>

NoKwargs ==
    [geoframe |-> None, country |-> None, polygon |-> None, begin |-> None,
     end |-> None, limit |-> None, offset |-> None, wkt_polygon |-> None]

NoQuery ==
    [fn |-> "", polygon |-> None, begin |-> None, end |-> None,
     limit |-> None, offset |-> None]

\* ------------------------------------------------------------- decorators
\* faulty variant: the session is acquired before the parameters are checked
DecoratorChain_SessionFirst(o) ==
    <<"with_session", "parse_wkt_polygon", "parse_date">>

\* faulty variant: parse_date wraps parse_wkt_polygon
DecoratorChain_DateFirst(o) ==
    <<"parse_date", "parse_wkt_polygon", "with_session">>

\* the wrappers around a handler, outermost first
DecoratorChain(o) ==
    IF o = "get_data"
    THEN <<"parse_wkt_polygon", "parse_date", "with_session">>
    ELSE <<"parse_wkt_polygon", "parse_date", "with_session">>

\* the function a wrapper calls as f
Callee(o, wrapper) ==
    LET chain == DecoratorChain(o) \o <<o>>
        i == CHOOSE k \in 1..Len(chain) : chain[k] = wrapper
    IN  chain[i + 1]

\* faulty variant: a malformed geoframe is dropped and f called unfiltered
GeoframeBranch_Ignore(kw, geoframe) ==
    LET r == bounding_box_to_wkt(geoframe)
    IN  IF r.exc # ""
        THEN CallF(kw, <<"bounding_box_to_wkt">>)
        ELSE CallF([kw EXCEPT !.wkt_polygon = Some(r.value)],
                   <<"bounding_box_to_wkt">>)

\* parse_wkt_polygon: the geoframe branch
GeoframeBranch(kw, geoframe) ==
    LET r == bounding_box_to_wkt(geoframe)
    IN  IF r.exc = "ValueError"
        THEN Returned(ClientError("Invalid geoparam"), kw,
                      <<"bounding_box_to_wkt">>)
        ELSE IF r.exc # ""
        THEN Returned(ServerError(r.exc), kw, <<"bounding_box_to_wkt">>)
        ELSE CallF([kw EXCEPT !.wkt_polygon = Some(r.value)],
                   <<"bounding_box_to_wkt">>)

\* faulty variant: an unknown country code is dropped and f called unfiltered
CountryBranch_NoCheck(kw, country, table) ==
    IF country \notin DOMAIN table
    THEN CallF(kw, <<"country_bounding_boxes">>)
    ELSE CallF([kw EXCEPT !.wkt_polygon =
                   Some(bounding_box_to_wkt(table[country][2]).value)],
               <<"country_bounding_boxes", "bounding_box_to_wkt">>)

\* parse_wkt_polygon: the country branch
CountryBranch(kw, country, table) ==
    IF country \notin DOMAIN table
    THEN Returned(ClientError("Unknown country code."), kw,
                  <<"country_bounding_boxes">>)
    ELSE LET r == bounding_box_to_wkt(table[country][2])
             made == <<"country_bounding_boxes", "bounding_box_to_wkt">>
         IN  IF r.exc # ""
             THEN Returned(ServerError(r.exc), kw, made)
             ELSE CallF([kw EXCEPT !.wkt_polygon = Some(r.value)], made)

\* parse_wkt_polygon: the polygon branch
PolygonBranch(kw, polygon) ==
    LET r == polygon_to_wkt(polygon)
    IN  IF r.exc = "RESTParamError"
        THEN Returned(ClientError(r.value), kw, <<"polygon_to_wkt">>)
        ELSE IF r.exc # ""
        THEN Returned(ServerError(r.exc), kw, <<"polygon_to_wkt">>)
        ELSE CallF([kw EXCEPT !.wkt_polygon = Some(r.value)],
                   <<"polygon_to_wkt">>)

\* faulty variant: country is examined before geoframe
decorated_CountryFirst(kw, table) ==
    LET popped == [kw EXCEPT !.geoframe = None, !.country = None,
                             !.polygon = None]
    IN  IF ~IsNone(kw.country)
        THEN CountryBranch(popped, kw.country[1], table)
        ELSE IF ~IsNone(kw.geoframe)
        THEN GeoframeBranch(popped, kw.geoframe[1])
        ELSE IF ~IsNone(kw.polygon) THEN PolygonBranch(popped, kw.polygon[1])
        ELSE CallF(popped, <<>>)

\* faulty variant: an input that fails falls through to the next one
decorated_Fallthrough(kw, table) ==
    LET popped == [kw EXCEPT !.geoframe = None, !.country = None,
                             !.polygon = None]
        g == IF IsNone(kw.geoframe) THEN CallF(popped, <<>>)
             ELSE GeoframeBranch(popped, kw.geoframe[1])
        c == IF IsNone(kw.country) THEN CallF(popped, <<>>)
             ELSE CountryBranch(popped, kw.country[1], table)
        p == IF IsNone(kw.polygon) THEN CallF(popped, <<>>)
             ELSE PolygonBranch(popped, kw.polygon[1])
    IN  IF ~IsNone(kw.geoframe) /\ g.ret.status = 0 THEN g
        ELSE IF ~IsNone(kw.country) /\ c.ret.status = 0 THEN c
        ELSE IF ~IsNone(kw.polygon) THEN p
        ELSE IF ~IsNone(kw.country) THEN c
        ELSE IF ~IsNone(kw.geoframe) THEN g
        ELSE CallF(popped, <<>>)

\* parse_wkt_polygon.decorated, up to its call of f
decorated(kw, table) ==
    LET geoframe == kw.geoframe
        country == kw.country
        polygon == kw.polygon
        popped == [kw EXCEPT !.geoframe = None, !.country = None,
                             !.polygon = None]
    IN  IF ~IsNone(geoframe) THEN GeoframeBranch(popped, geoframe[1])
        ELSE IF ~IsNone(country)
        THEN CountryBranch(popped, country[1], table)
        ELSE IF ~IsNone(polygon) THEN PolygonBranch(popped, polygon[1])
        ELSE CallF(popped, <<>>)

\* faulty variant: end is examined before begin
parse_date_keys_Reversed == <<"end", "begin">>

\* the keys get_data and get_average hand to parse_date
parse_date_keys == <<"begin", "end">>

\* parse_date.wrapped_f, up to its call of f
RECURSIVE wrapped_f_loop(_, _, _)
wrapped_f_loop(keys, kw, made) ==
    IF Len(keys) = 0 THEN CallF(kw, made)
    ELSE LET key == Head(keys)
             date == kw[key]
         IN  IF IsNone(date) THEN wrapped_f_loop(Tail(keys), kw, made)
             ELSE LET r == dateutil_parse(date[1])
                      now == Append(made, "dateutil.parser.parse " \o key)
                  IN  IF r.exc = "ValueError"
                      THEN Returned(ClientError("Invalid " \o key), kw, now)
                      ELSE wrapped_f_loop(Tail(keys),
                               [kw EXCEPT ![key] = Some(r.value)], now)

wrapped_f(kw) == wrapped_f_loop(parse_date_keys, kw, <<>>)

\* ------------------------------------------------------------ handlers
\* faulty variant: limit and offset are handed over crosswise
get_data_query_Swapped(kw) ==
    [fn |-> "get_points", polygon |-> kw.wkt_polygon, begin |-> kw.begin,
     end |-> kw.end, limit |-> kw.offset, offset |-> kw.limit]

\* get_data: the arguments of its store query
get_data_query(kw) ==
    [fn |-> "get_points", polygon |-> kw.wkt_polygon, begin |-> kw.begin,
     end |-> kw.end, limit |-> kw.limit, offset |-> kw.offset]

\* faulty variant: the point is built as (latitude, longitude)
Feature_Swapped(row) ==
    [type |-> "Feature",
     geometry |-> [type |-> "Point", coordinates |-> <<row[3], row[2]>>],
     properties |-> [carbonmonoxide |-> row[1].value,
                     timestamp |-> row[1].timestamp]]

\* get_data: one row as a feature
Feature(row) ==
    [type |-> "Feature",
     geometry |-> [type |-> "Point", coordinates |-> <<row[2], row[3]>>],
     properties |-> [carbonmonoxide |-> row[1].value,
                     timestamp |-> row[1].timestamp]]

\* get_data: the feature collection of the paginated query
get_data_result(q, stored) ==
    LET page == limit_offset_query(stored, q.limit, q.offset)
    IN  [type |-> "FeatureCollection",
         features |-> [i \in 1..Len(page) |-> Feature(page[i])]]

\* get_average: the arguments of its store query
get_average_query(kw) ==
    [fn |-> "get_averages", polygon |-> kw.wkt_polygon, begin |-> kw.begin,
     end |-> kw.end, limit |-> kw.limit, offset |-> kw.offset]

\* faulty variant: start and end are taken from each other's field
AverageRecord_Swapped(row) ==
    [average |-> row[1], start |-> row[2], end |-> row[3]]

\* get_average: one row as a record
AverageRecord(row) ==
    [average |-> row[1], start |-> row[3], end |-> row[2]]

\* get_average: the list of the paginated query
get_average_result(q, stored) ==
    LET page == limit_offset_query(stored, q.limit, q.offset)
    IN  [i \in 1..Len(page) |-> AverageRecord(page[i])]

\* ------------------------------------------------------------------ actions
Init ==
    /\ pc = "idle"
    /\ op = "get_data"
    /\ req = NoKwargs
    /\ kwargs = NoKwargs
    /\ calls = <<>>
    /\ session = "none"
    /\ query = NoQuery
    /\ rows = <<>>
    /\ response = NoResponse
    /\ country_bounding_boxes = CountryTable

\* the host invokes one of the two operations with a request's parameters
Request ==
    /\ pc = "idle"
    /\ \E o \in Operations, kw \in KwargsInputs :
          /\ op' = o
          /\ req' = kw
          /\ kwargs' = kw
          /\ pc' = Head(DecoratorChain(o) \o <<o>>)
    /\ calls' = <<>>
    /\ session' = "none"
    /\ query' = NoQuery
    /\ rows' = <<>>
    /\ response' = NoResponse
    /\ UNCHANGED country_bounding_boxes

\* a wrapper either returns its own response or calls f
Wrapper(name, out) ==
    /\ calls' = calls \o <<name>> \o out.calls
    /\ kwargs' = out.kwargs
    /\ IF out.ret.status # 0
       THEN /\ response' = out.ret
            /\ pc' = "done"
       ELSE /\ response' = response
            /\ pc' = Callee(op, name)

parse_wkt_polygon ==
    /\ pc = "parse_wkt_polygon"
    /\ Wrapper("parse_wkt_polygon", decorated(kwargs, country_bounding_boxes))
    /\ UNCHANGED <<op, req, session, query, rows, country_bounding_boxes>>

parse_date ==
    /\ pc = "parse_date"
    /\ Wrapper("parse_date", wrapped_f(kwargs))
    /\ UNCHANGED <<op, req, session, query, rows, country_bounding_boxes>>

\* emissionsapi.db.with_session: open a session and call f with it
with_session ==
    /\ pc = "with_session"
    /\ session' = "open"
    /\ calls' = Append(calls, "with_session")
    /\ pc' = Callee(op, "with_session")
    /\ UNCHANGED <<op, req, kwargs, query, rows, response,
                   country_bounding_boxes>>

\* a handler's body; the session is closed as its result passes back
\* through with_session
Handler(q, fn) ==
    /\ query' = q
    /\ \E n \in 0..MaxRows : rows' = StoreRows(op, n)
    /\ calls' = calls \o <<op, fn, "limit_offset_query">>
    /\ session' = IF session = "open" THEN "closed" ELSE session
    /\ pc' = "done"
    /\ UNCHANGED <<op, req, kwargs, country_bounding_boxes>>

get_data ==
    /\ pc = "get_data"
    /\ Handler(get_data_query(kwargs), "get_points")
    /\ response' = Ok(get_data_result(query', rows'))

get_average ==
    /\ pc = "get_average"
    /\ Handler(get_average_query(kwargs), "get_averages")
    /\ response' = Ok(get_average_result(query', rows'))

\* the host takes the response; the next request starts from scratch
Return ==
    /\ pc = "done"
    /\ pc' = "idle"
    /\ op' = "get_data"
    /\ req' = NoKwargs
    /\ kwargs' = NoKwargs
    /\ calls' = <<>>
    /\ session' = "none"
    /\ query' = NoQuery
    /\ rows' = <<>>
    /\ response' = NoResponse
    /\ UNCHANGED country_bounding_boxes

Next ==
    \/ Request
    \/ parse_wkt_polygon
    \/ parse_date
    \/ with_session
    \/ get_data
    \/ get_average
    \/ Return

Spec == Init /\ [][Next]_vars

\* ------------------------------------------------------ reading a state
CallSet == {calls[i] : i \in 1..Len(calls)}
Called(f) == f \in CallSet
\* f was called, and before g if g was called at all
CalledBefore(f, g) ==
    \E i \in 1..Len(calls) :
        /\ calls[i] = f
        /\ \A j \in 1..Len(calls) : calls[j] = g => i < j

StoreCalls == {"with_session", "get_points", "get_averages",
               "limit_offset_query"}
HandlerInvoked == Called("get_data") \/ Called("get_average")
GeoRan == Called("parse_wkt_polygon")
DateRan == Called("parse_date")

\* the request's geometry inputs, read off the raw request
HasGeoframe == ~IsNone(req.geoframe)
HasCountry == ~IsNone(req.country)
HasPolygon == ~IsNone(req.polygon)
GeoframeWellFormed(box) ==
    /\ Len(box) = 4
    /\ \A i \in 1..4 : box[i].num
    /\ box[1].v <= box[3].v
    /\ box[2].v <= box[4].v
GeoframeInvalid == HasGeoframe /\ ~GeoframeWellFormed(req.geoframe[1])
CountryInvalid ==
    ~HasGeoframe /\ HasCountry /\ req.country[1] \notin DOMAIN CountryTable
PolygonInvalid ==
    /\ ~HasGeoframe /\ ~HasCountry /\ HasPolygon
    /\ polygon_to_wkt(req.polygon[1]).exc # ""
SelectedInvalid == GeoframeInvalid \/ CountryInvalid \/ PolygonInvalid
GeoErrors ==
    {"Invalid geoparam", "Unknown country code.", "Polygon is not closed",
     "Polygon needs at least 4 points"}

BadDate(d) == ~IsNone(d) /\ dateutil_parse(d[1]).exc # ""
BeginBad == BadDate(req.begin)
EndBad == BadDate(req.end)
ParsedDate(d) == IF IsNone(d) THEN None ELSE Some(dateutil_parse(d[1]).value)

\* the rows the response is made of
Items == IF op = "get_data" THEN response.payload.features
         ELSE response.payload
Answered == pc = "done" /\ response.status = 200

\* -------------------------------------------------------------------- C1
\* the filter each geometry input alone resolves to
GeoframeFilter == Some(bounding_box_to_wkt(req.geoframe[1]).value)
CountryFilter ==
    Some(bounding_box_to_wkt(CountryTable[req.country[1]][2]).value)
PolygonFilter == Some(polygon_to_wkt(req.polygon[1]).value)

\* C1: once the geometry resolver has run, exactly one variant was honoured,
\* chosen by the precedence geoframe > country > polygon: with a geoframe
\* the filter is the geoframe's and neither the country table nor the
\* polygon conversion was used; else with a country the filter is the
\* country's and the polygon was not converted; else with a polygon the
\* filter is the polygon's; with none of them there is no filter and no
\* geometry error, and the handler queries the store without a polygon.
C1_Precedence ==
    GeoRan =>
        /\ HasGeoframe =>
              /\ Called("bounding_box_to_wkt")
              /\ ~Called("country_bounding_boxes")
              /\ ~Called("polygon_to_wkt")
              /\ ~GeoframeInvalid => kwargs.wkt_polygon = GeoframeFilter
        /\ (~HasGeoframe /\ HasCountry) =>
              /\ Called("country_bounding_boxes")
              /\ ~Called("polygon_to_wkt")
              /\ ~CountryInvalid => kwargs.wkt_polygon = CountryFilter
        /\ (~HasGeoframe /\ ~HasCountry /\ HasPolygon) =>
              /\ Called("polygon_to_wkt")
              /\ ~Called("country_bounding_boxes")
              /\ ~Called("bounding_box_to_wkt")
              /\ ~PolygonInvalid => kwargs.wkt_polygon = PolygonFilter
        /\ (~HasGeoframe /\ ~HasCountry /\ ~HasPolygon) =>
              /\ kwargs.wkt_polygon = None
              /\ ~Called("bounding_box_to_wkt")
              /\ ~Called("country_bounding_boxes")
              /\ ~Called("polygon_to_wkt")
              /\ response.message \notin GeoErrors
              /\ (pc = "done" /\ ~BeginBad /\ ~EndBad) =>
                    /\ response.status = 200
                    /\ HandlerInvoked
        /\ HandlerInvoked => query.polygon = kwargs.wkt_polygon

\* all three inputs supplied and valid, the store was queried with the
\* geoframe's filter, which is not the country's
C1_Witness ==
    /\ pc = "done"
    /\ response.status = 200
    /\ HasGeoframe /\ HasCountry /\ HasPolygon
    /\ req.country[1] \in DOMAIN CountryTable
    /\ query.polygon = GeoframeFilter
    /\ query.polygon # CountryFilter
    /\ query.polygon # PolygonFilter

\* -------------------------------------------------------------------- C2
\* C2: once the geometry resolver has run on a request whose selected
\* (highest-precedence present) variant is invalid, the request has ended
\* with a 400 geometry error, no filter was set and the handler was not
\* invoked, whatever the lower-precedence inputs are.
C2_NoFallback ==
    (GeoRan /\ SelectedInvalid) =>
        /\ pc = "done"
        /\ response.status = 400
        /\ response.message \in GeoErrors
        /\ GeoframeInvalid => response.message = "Invalid geoparam"
        /\ CountryInvalid => response.message = "Unknown country code."
        /\ kwargs.wkt_polygon = None
        /\ ~HandlerInvoked

\* an invalid geoframe next to a known country and a valid polygon
C2_Witness ==
    /\ pc = "done"
    /\ GeoframeInvalid
    /\ HasCountry /\ req.country[1] \in DOMAIN CountryTable
    /\ HasPolygon /\ polygon_to_wkt(req.polygon[1]).exc = ""
    /\ response = ClientError("Invalid geoparam")

\* -------------------------------------------------------------------- C3
\* C3: a request answered with a client error has acquired no session and
\* made no store call; and whenever a session was acquired or a store
\* operation called, the request's geometry and dates are all valid and both
\* parse_wkt_polygon and parse_date ran before it.
C3_NoStoreOnFailure ==
    /\ response.status = 400 =>
          /\ session = "none"
          /\ query = NoQuery
          /\ Len(rows) = 0
          /\ CallSet \cap StoreCalls = {}
          /\ ~HandlerInvoked
    /\ (session # "none" \/ query.fn # "" \/ CallSet \cap StoreCalls # {}) =>
          /\ ~SelectedInvalid
          /\ ~BeginBad
          /\ ~EndBad
          /\ \A s \in StoreCalls :
                /\ CalledBefore("parse_wkt_polygon", s)
                /\ CalledBefore("parse_date", s)

\* a request with a valid geoframe and a malformed end was refused
C3_Witness ==
    /\ pc = "done"
    /\ HasGeoframe
    /\ response = ClientError("Invalid end")
    /\ session = "none"

\* -------------------------------------------------------------------- C4
\* C4 as stated: date parsing runs before geometry resolution, so a request
\* with an unparseable begin or end ends with 'Invalid <field>' whatever its
\* geometry inputs are, and no geometry input was evaluated.
C4_DateFirst ==
    (pc = "done" /\ (BeginBad \/ EndBad)) =>
        /\ response =
              ClientError(IF BeginBad THEN "Invalid begin" ELSE "Invalid end")
        /\ ~Called("bounding_box_to_wkt")
        /\ ~Called("country_bounding_boxes")
        /\ ~Called("polygon_to_wkt")

\* C4 amended: geometry resolution runs before date parsing and the error
\* returned is that of the first failing stage in this order: a request
\* whose selected geometry variant is invalid ends with the geometry error
\* even when begin or end is unparseable, and no date is parsed after it;
\* 'Invalid <field>' is returned only once the geometry resolved.
C4_GeometryFirst ==
    /\ DateRan => CalledBefore("parse_wkt_polygon", "parse_date")
    /\ (pc = "done" /\ SelectedInvalid) =>
          /\ response.status = 400
          /\ response.message \in GeoErrors
          /\ ~DateRan
          /\ ~Called("dateutil.parser.parse begin")
          /\ ~Called("dateutil.parser.parse end")
    /\ (pc = "done" /\ ~SelectedInvalid /\ (BeginBad \/ EndBad)) =>
          response =
              ClientError(IF BeginBad THEN "Invalid begin" ELSE "Invalid end")

\* an unknown country together with an unparseable begin: the geometry
\* error is the one returned
C4_Witness ==
    /\ pc = "done"
    /\ CountryInvalid
    /\ BeginBad
    /\ response = ClientError("Unknown country code.")

\* -------------------------------------------------------------------- C5
\* C5: once parse_date has run, a malformed begin has ended the request
\* with 'Invalid begin' (also when end is malformed too, and without end
\* being parsed), a malformed end after a good or absent begin has ended it
\* with 'Invalid end', and otherwise each field is None when absent and its
\* timestamp when present; the handler is invoked only with no malformed
\* date, and queries the store with these values.
C5_DateFields ==
    /\ DateRan =>
          /\ BeginBad =>
                /\ pc = "done"
                /\ response = ClientError("Invalid begin")
                /\ ~Called("dateutil.parser.parse end")
          /\ (~BeginBad /\ EndBad) =>
                /\ pc = "done"
                /\ response = ClientError("Invalid end")
          /\ (~BeginBad /\ ~EndBad) =>
                /\ response.status # 400
                /\ kwargs.begin = ParsedDate(req.begin)
                /\ kwargs.end = ParsedDate(req.end)
          /\ IsNone(req.begin) => ~Called("dateutil.parser.parse begin")
          /\ IsNone(req.end) => ~Called("dateutil.parser.parse end")
    /\ HandlerInvoked =>
          /\ ~BeginBad
          /\ ~EndBad
          /\ query.begin = ParsedDate(req.begin)
          /\ query.end = ParsedDate(req.end)

\* both fields malformed: the error names begin
C5_Witness ==
    /\ pc = "done"
    /\ DateRan
    /\ BeginBad
    /\ EndBad
    /\ response = ClientError("Invalid begin")

\* -------------------------------------------------------------------- C6
\* C6: once the geometry resolver has run on a request with a geoframe, a
\* geoframe that is not four numbers with min <= max on each axis has ended
\* the request with ('Invalid geoparam', 400) without the handler; any
\* other geoframe has become a closed boundary of 5 vertices, first = last,
\* whose vertices are the rectangle's corners and whose bounds are the input.
C6_Geoframe ==
    (GeoRan /\ HasGeoframe) =>
        LET box == req.geoframe[1]
        IN  /\ ~GeoframeWellFormed(box) =>
                  /\ pc = "done"
                  /\ response = ClientError("Invalid geoparam")
                  /\ ~HandlerInvoked
            /\ GeoframeWellFormed(box) =>
                  /\ response.message # "Invalid geoparam"
                  /\ ~IsNone(kwargs.wkt_polygon)
                  /\ LET w == kwargs.wkt_polygon[1]
                     IN  /\ Len(w) = 5
                         /\ w[1] = w[5]
                         /\ {w[i][1] : i \in 1..5} = {box[1].v, box[3].v}
                         /\ {w[i][2] : i \in 1..5} = {box[2].v, box[4].v}
                         /\ {w[i] : i \in 1..4} =
                               {<<box[1].v, box[2].v>>, <<box[1].v, box[4].v>>,
                                <<box[3].v, box[4].v>>, <<box[3].v, box[2].v>>}

\* a proper rectangle was resolved and the store queried with it
C6_Witness ==
    /\ Answered
    /\ HasGeoframe
    /\ GeoframeWellFormed(req.geoframe[1])
    /\ req.geoframe[1][1].v < req.geoframe[1][3].v
    /\ req.geoframe[1][2].v < req.geoframe[1][4].v
    /\ Len(query.polygon[1]) = 5

\* -------------------------------------------------------------------- C7
\* the filter a request with only this rectangle as geoframe resolves to
AsGeoframe(box) ==
    decorated([NoKwargs EXCEPT !.geoframe = Some(box)],
              CountryTable).kwargs.wkt_polygon

\* C7: the country table never changes; and once the geometry resolver has
\* run with country the selected variant, an unknown code has ended the
\* request with ('Unknown country code.', 400) without the handler, and a
\* known code has produced the filter that its bounding rectangle produces
\* when supplied as geoframe.
C7_Country ==
    /\ country_bounding_boxes = CountryTable
    /\ (GeoRan /\ ~HasGeoframe /\ HasCountry) =>
          LET c == req.country[1]
          IN  /\ c \notin DOMAIN CountryTable =>
                    /\ pc = "done"
                    /\ response = ClientError("Unknown country code.")
                    /\ ~HandlerInvoked
              /\ c \in DOMAIN CountryTable =>
                    /\ response.message \notin GeoErrors
                    /\ ~IsNone(kwargs.wkt_polygon)
                    /\ kwargs.wkt_polygon = AsGeoframe(CountryTable[c][2])

\* a known country next to a polygon: the store was queried with the
\* country's rectangle
C7_Witness ==
    /\ Answered
    /\ ~HasGeoframe
    /\ HasCountry
    /\ HasPolygon
    /\ req.country[1] = "FR"
    /\ query.polygon = AsGeoframe(CountryTable["FR"][2])

\* -------------------------------------------------------------------- C8
Shaped(row) == IF op = "get_data" THEN Feature(row) ELSE AverageRecord(row)

\* C8: an answered request was paginated between the store query and the
\* shaping: its output is the shaped store rows at positions offset ..
\* offset+limit-1 (offset 0 and no limit when absent), in store order: all
\* rows when neither is given, never more than limit items.
C8_Pagination ==
    Answered =>
        LET off == IF IsNone(req.offset) THEN 0 ELSE req.offset[1]
            avail == IF Len(rows) > off THEN Len(rows) - off ELSE 0
            want == IF IsNone(req.limit) \/ req.limit[1] > avail
                    THEN avail ELSE req.limit[1]
        IN  /\ Len(Items) = want
            /\ \A i \in 1..want : Items[i] = Shaped(rows[off + i])
            /\ ~IsNone(req.limit) => Len(Items) <= req.limit[1]
            /\ (IsNone(req.limit) /\ IsNone(req.offset)) =>
                  Len(Items) = Len(rows)
            /\ CalledBefore(query.fn, "limit_offset_query")
            /\ CalledBefore(op, query.fn)

\* limit=1, offset=1 over three rows: exactly the second row
C8_Witness ==
    /\ Answered
    /\ op = "get_data"
    /\ req.limit = Some(1)
    /\ req.offset = Some(1)
    /\ Len(rows) = 3
    /\ Len(Items) = 1
    /\ Items[1] = Shaped(rows[2])

\* -------------------------------------------------------------------- C9
\* the rows an answered request shapes
Page == limit_offset_query(rows, req.limit, req.offset)

\* C9: get_average answers with one record per row of the paginated store
\* result, in order: average from the row's first field, end from its
\* second, start from its third, the fourth dropped; no rows, empty list.
C9_AverageShaping ==
    (Answered /\ op = "get_average") =>
        /\ Len(response.payload) = Len(Page)
        /\ \A i \in 1..Len(Page) :
              LET r == response.payload[i]
              IN  /\ DOMAIN r = {"average", "start", "end"}
                  /\ r.average = Page[i][1]
                  /\ r.end = Page[i][2]
                  /\ r.start = Page[i][3]
        /\ Len(rows) = 0 => response.payload = <<>>

\* several averages were returned
C9_Witness ==
    /\ Answered
    /\ op = "get_average"
    /\ Len(response.payload) >= 2
    /\ response.payload[2].start < response.payload[2].end

\* ------------------------------------------------------------------- C10
\* C10: get_data answers with a feature collection holding one feature per
\* row of the paginated store result, in order: a point at (longitude,
\* latitude) with the row's value and timestamp as properties; no rows, a
\* feature collection with no features.
C10_PointShaping ==
    (Answered /\ op = "get_data") =>
        /\ response.payload.type = "FeatureCollection"
        /\ Len(response.payload.features) = Len(Page)
        /\ \A i \in 1..Len(Page) :
              LET f == response.payload.features[i]
              IN  /\ f.type = "Feature"
                  /\ f.geometry.type = "Point"
                  /\ f.geometry.coordinates = <<Page[i][2], Page[i][3]>>
                  /\ f.properties =
                        [carbonmonoxide |-> Page[i][1].value,
                         timestamp |-> Page[i][1].timestamp]
        /\ Len(rows) = 0 => response.payload.features = <<>>

\* several points were returned
C10_Witness ==
    /\ Answered
    /\ op = "get_data"
    /\ Len(response.payload.features) >= 2
    /\ response.payload.features[2].geometry.coordinates[1] = 2

=============================================================================
